---------------------------- MODULE Spec2Model ----------------------------
(***************************************************************************)
(* Model of the pscale insert benchmark (main.go).                         *)
(*                                                                         *)
(* main drives, for every configured batch size, runWarmup and then        *)
(* measureSteadyState; measureSteadyState clears the table, calls          *)
(* insertWithBatch and appends one throughput sample per iteration until   *)
(* the coefficient of variation of the series is <= targetCV or            *)
(* maxSamples samples were taken.  Every datastore call (TRUNCATE, Begin,  *)
(* SendBatch/Close, Commit) either succeeds or returns an error; an error  *)
(* reaches log.Fatalf in main.                                             *)
(*                                                                         *)
(* The table is modelled by its number of committed rows, a transaction by *)
(* its state and the number of rows it has inserted but not yet committed. *)
(* Throughput values are floats in the program; the model draws them from  *)
(* a small set of integers and computes mean, variance and the CV test in  *)
(* exact rational arithmetic (numerator/denominator pairs).  Elapsed time  *)
(* is assumed positive, so a sample is 0 exactly when no row was inserted. *)
(* The run starts on the empty table that the migrations create.           *)
(***************************************************************************)
EXTENDS Integers, Sequences, FiniteSets

\* ---- bounds: scaled-down sizes of the program's configuration ----------
\* len(data): the program generates totalRows = 10_000_000 rows
MaxData == 6
\* rows per sample (100_000 in the program)
sampleSize == 5
\* minimum samples before the stability check (5 in the program)
minSamples == 3
\* maximum samples of one trial (20 in the program)
maxSamples == 5

\* longest series handed to the statistics functions on their own
MaxStatLen == 3

\* sample values handed to the statistics functions on their own
StatValues == {0, 1, 2, 3, 100, 112}

\* batch sizes below, equal to and above sampleSize, as in the program
batchSizes == <<2, 5, 8>>

\* measured throughputs (rows/sec) of a sample that inserted rows
Throughputs == {100, 112}

\* targetCV = 0.05 = targetCVNum / targetCVDen
targetCVNum == 1
targetCVDen == 20

\* insert cycles of runWarmup
warmupCycles == 2

VARIABLES
    pc,         \* position of the single thread of control
    dataLen,    \* len(data)
    table,      \* committed rows of test_data
    txState,    \* "none" | "open" | "committed" | "rolledback" | "commitFailed"
    pending,    \* rows inserted by the open transaction, not yet visible
    bIdx,       \* index into batchSizes of the current trial
    wi,         \* runWarmup: loop counter i
    ii,         \* insertWithBatch: loop counter i
    durations,  \* measureSteadyState: the sample series
    totalRows,  \* measureSteadyState: local totalRows
    result,     \* value returned by measureSteadyState
    results,    \* main: results
    shown,      \* results handed to displayHistogram, NotShown before
    err,        \* the error that ended the run, NoErr before
    rowsBefore, \* history: table rows when insertWithBatch was called
    txLog,      \* history: <<i, end>> of every chunk committed by the call
    warmBase,   \* history: table rows when runWarmup was called
    dbOps,      \* history: number of Begin, SendBatch, Commit and TRUNCATE calls
    ops         \* history: the datastore calls of the current trial, in order

vars == <<pc, dataLen, table, txState, pending, bIdx, wi, ii, durations,
          totalRows, result, results, shown, err, rowsBefore, txLog,
          warmBase, dbOps, ops>>

NoErr == [op |-> "none", fn |-> "none"]
NoResult == [batchSize |-> 0]
NotShown == <<[batchSize |-> 0]>>

batchSize == batchSizes[bIdx]

\* ---- pure helpers -------------------------------------------------------
RECURSIVE Sum(_)
Sum(s) == IF s = <<>> THEN 0 ELSE Head(s) + Sum(Tail(s))

\* sum / len(values), as the pair num/den
calculateMean(values) == [num |-> Sum(values), den |-> Len(values)]

RECURSIVE SumSquares(_, _)
\* sum over v of (v - mean)^2, scaled by mean.den^2
SumSquares(values, mean) ==
    IF values = <<>> THEN 0
    ELSE LET diff == Head(values) * mean.den - mean.num
         IN  diff * diff + SumSquares(Tail(values), mean)

\* the variance with the divisor n - 1 of a sample estimate
calculateStdDev_sample(values, mean) ==
    [num |-> SumSquares(values, mean),
     den |-> mean.den * mean.den * (Len(values) - 1)]

\* the variance sumSquares / len(values) as the pair num/den; the program
\* returns its square root
calculateStdDev(values, mean) ==
    [num |-> SumSquares(values, mean),
     den |-> mean.den * mean.den * Len(values)]

\* cv := stdDev / mean; cv <= targetCV.  With mean = 0 (and so stdDev = 0)
\* the float quotient is NaN and the comparison is false.
cvLeTarget(stdDev, mean) ==
    /\ mean.num # 0
    /\ targetCVDen * targetCVDen * stdDev.num * mean.den * mean.den
         <= targetCVNum * targetCVNum * mean.num * mean.num * stdDev.den

\* rowsToInsert without the cap at len(data)
rowsToInsert_uncapped(n) == sampleSize

\* rowsToInsert of measureSteadyState
rowsToInsert(n) == IF sampleSize > n THEN n ELSE sampleSize

\* warmupSize without the cap at len(data)
warmupSize_uncapped(B, n) == B

\* warmupSize of runWarmup
warmupSize(B, n) == IF B > n THEN n ELSE B

\* chunk end without the cap at len(data)
chunkEnd_uncapped(i, B, n) == i + B

\* end of the chunk of insertWithBatch that starts at i
chunkEnd(i, B, n) == IF i + B > n THEN n ELSE i + B

\* loop condition that is off by one
sampleLoopCond_offByOne(d) == Len(d) <= maxSamples

\* loop condition of measureSteadyState
sampleLoopCond(d) == Len(d) < maxSamples

\* a Result computed over the last minSamples samples only
mkResult_tail(B, d, total) ==
    LET t == SubSeq(d, Len(d) - minSamples + 1, Len(d))
        mean == calculateMean(t)
        stdDev == calculateStdDev(t, mean)
    IN  [batchSize |-> B,
         duration |-> [num |-> total * mean.den, den |-> mean.num],
         rowsPerSec |-> mean,
         stdDev |-> stdDev,
         samples |-> Len(d)]

\* the Result built at both return sites of measureSteadyState
mkResult(B, d, total) ==
    LET mean == calculateMean(d)
        stdDev == calculateStdDev(d, mean)
    IN  [batchSize |-> B,
         duration |-> [num |-> total * mean.den, den |-> mean.num],
         rowsPerSec |-> mean,
         stdDev |-> stdDev,
         samples |-> Len(d)]

\* ---- initial state ------------------------------------------------------
Init ==
    /\ pc = "m_loop"
    /\ dataLen \in 0..MaxData
    /\ table = 0
    /\ txState = "none"
    /\ pending = 0
    /\ bIdx = 1
    /\ wi = 0
    /\ ii = 0
    /\ durations = <<>>
    /\ totalRows = 0
    /\ result = NoResult
    /\ results = <<>>
    /\ shown = NotShown
    /\ err = NoErr
    /\ rowsBefore = 0
    /\ txLog = <<>>
    /\ warmBase = 0
    /\ dbOps = 0
    /\ ops = <<>>

\* an error that is logged while main goes on with its loop
Fatal_continue(op, fn) ==
    /\ pc' = "m_loop"
    /\ err' = [op |-> op, fn |-> fn]

\* log.Fatalf after an error of op in fn
Fatal(op, fn) ==
    /\ pc' = "fatal"
    /\ err' = [op |-> op, fn |-> fn]

\* ---- main ---------------------------------------------------------------
\* for _, batchSize := range batchSizes: call runWarmup
MainNext ==
    /\ pc = "m_loop"
    /\ bIdx <= Len(batchSizes)
    /\ pc' = "w_begin"
    /\ wi' = 0
    /\ warmBase' = table
    /\ ops' = <<>>
    /\ UNCHANGED <<dataLen, table, txState, pending, bIdx, ii, durations,
                   totalRows, result, results, shown, err, rowsBefore,
                   txLog, dbOps>>

\* an append that puts the new Result in front
MainAppend_prepend ==
    /\ pc = "m_append"
    /\ results' = <<result>> \o results
    /\ bIdx' = bIdx + 1
    /\ durations' = <<>>
    /\ totalRows' = 0
    /\ pc' = "m_loop"
    /\ UNCHANGED <<dataLen, table, txState, pending, wi, ii, result, shown,
                   err, rowsBefore, txLog, warmBase, dbOps, ops>>

\* main clearing the table once a trial has returned
MainAppend_clearTable ==
    /\ pc = "m_append"
    /\ results' = Append(results, result)
    /\ bIdx' = bIdx + 1
    /\ durations' = <<>>
    /\ totalRows' = 0
    /\ table' = 0
    /\ pc' = "m_loop"
    /\ UNCHANGED <<dataLen, txState, pending, wi, ii, result, shown, err,
                   rowsBefore, txLog, warmBase, dbOps, ops>>

\* results = append(results, result)
MainAppend ==
    /\ pc = "m_append"
    /\ results' = Append(results, result)
    /\ bIdx' = bIdx + 1
    /\ durations' = <<>>
    /\ totalRows' = 0
    /\ pc' = "m_loop"
    /\ UNCHANGED <<dataLen, table, txState, pending, wi, ii, result, shown,
                   err, rowsBefore, txLog, warmBase, dbOps,
                   ops>>

\* displayHistogram(results)
MainDisplay ==
    /\ pc = "m_loop"
    /\ bIdx > Len(batchSizes)
    /\ shown' = results
    /\ pc' = "done"
    /\ UNCHANGED <<dataLen, table, txState, pending, bIdx, wi, ii,
                   durations, totalRows, result, results, err, rowsBefore,
                   txLog, warmBase, dbOps,
                   ops>>

\* ---- runWarmup ----------------------------------------------------------
\* tx, err := pool.Begin(ctx) succeeds
WarmupBeginOk ==
    /\ pc = "w_begin"
    /\ txState' = "open"
    /\ pending' = 0
    /\ dbOps' = dbOps + 1
    /\ pc' = "w_send"
    /\ ops' = Append(ops, [fn |-> "runWarmup", op |-> "begin", rows |-> <<0, 0>>])
    /\ UNCHANGED <<dataLen, table, bIdx, wi, ii, durations, totalRows,
                   result, results, shown, err, rowsBefore, txLog, warmBase>>

\* pool.Begin fails: return err
WarmupBeginFail ==
    /\ pc = "w_begin"
    /\ dbOps' = dbOps + 1
    /\ Fatal("begin", "runWarmup")
    /\ ops' = Append(ops, [fn |-> "runWarmup", op |-> "begin", rows |-> <<0, 0>>])
    /\ UNCHANGED <<dataLen, table, txState, pending, bIdx, wi, ii, durations,
                   totalRows, result, results, shown, rowsBefore, txLog,
                   warmBase>>

\* the batch of warmupSize inserts is sent and br.Close() returns nil
WarmupSendOk ==
    /\ pc = "w_send"
    /\ pending' = warmupSize(batchSize, dataLen)
    /\ dbOps' = dbOps + 1
    /\ pc' = "w_commit"
    /\ ops' = Append(ops, [fn |-> "runWarmup", op |-> "send", rows |-> <<0, warmupSize(batchSize, dataLen)>>])
    /\ UNCHANGED <<dataLen, table, txState, bIdx, wi, ii, durations,
                   totalRows, result, results, shown, err, rowsBefore, txLog,
                   warmBase>>

\* br.Close() returns an error after some statements of the batch ran
WarmupSendFail ==
    /\ pc = "w_send"
    /\ \E done \in 0..warmupSize(batchSize, dataLen) :
          /\ done < warmupSize(batchSize, dataLen) \/ done = 0
          /\ pending' = done
    /\ dbOps' = dbOps + 1
    /\ err' = [op |-> "stmt", fn |-> "runWarmup"]
    /\ pc' = "w_rollback"
    /\ ops' = Append(ops, [fn |-> "runWarmup", op |-> "send", rows |-> <<0, warmupSize(batchSize, dataLen)>>])
    /\ UNCHANGED <<dataLen, table, txState, bIdx, wi, ii, durations,
                   totalRows, result, results, shown, rowsBefore, txLog,
                   warmBase>>

\* tx.Rollback(ctx); return err
WarmupRollback ==
    /\ pc = "w_rollback"
    /\ pending' = 0
    /\ txState' = "rolledback"
    /\ pc' = "fatal"
    /\ ops' = Append(ops, [fn |-> "runWarmup", op |-> "rollback", rows |-> <<0, 0>>])
    /\ UNCHANGED <<dataLen, table, bIdx, wi, ii, durations, totalRows,
                   result, results, shown, err, rowsBefore, txLog, warmBase,
                   dbOps>>

\* tx.Commit(ctx) succeeds; i++ and the loop test
WarmupCommitOk ==
    /\ pc = "w_commit"
    /\ table' = table + pending
    /\ pending' = 0
    /\ txState' = "committed"
    /\ dbOps' = dbOps + 1
    /\ wi' = wi + 1
    /\ pc' = IF wi + 1 < warmupCycles THEN "w_begin" ELSE "w_clear"
    /\ ops' = Append(ops, [fn |-> "runWarmup", op |-> "commit", rows |-> <<0, 0>>])
    /\ UNCHANGED <<dataLen, bIdx, ii, durations, totalRows, result, results,
                   shown, err, rowsBefore, txLog, warmBase>>

\* tx.Commit fails: return err, without a Rollback call
WarmupCommitFail ==
    /\ pc = "w_commit"
    /\ txState' = "commitFailed"
    /\ dbOps' = dbOps + 1
    /\ Fatal("commit", "runWarmup")
    /\ ops' = Append(ops, [fn |-> "runWarmup", op |-> "commit", rows |-> <<0, 0>>])
    /\ UNCHANGED <<dataLen, table, pending, bIdx, wi, ii, durations,
                   totalRows, result, results, shown, rowsBefore, txLog,
                   warmBase>>

\* a warmup whose final clear leaves the rows in the table
WarmupClearOk_noTruncate ==
    /\ pc = "w_clear"
    /\ dbOps' = dbOps + 1
    /\ ops' = Append(ops, [fn |-> "runWarmup", op |-> "clear", rows |-> <<0, 0>>])
    /\ durations' = <<>>
    /\ totalRows' = 0
    /\ pc' = "s_loop"
    /\ UNCHANGED <<dataLen, table, txState, pending, bIdx, wi, ii, result,
                   results, shown, err, rowsBefore, txLog, warmBase>>

\* clearTable succeeds, runWarmup returns nil and main calls
\* measureSteadyState (var durations, var totalRows)
WarmupClearOk ==
    /\ pc = "w_clear"
    /\ table' = 0
    /\ dbOps' = dbOps + 1
    /\ durations' = <<>>
    /\ totalRows' = 0
    /\ pc' = "s_loop"
    /\ ops' = Append(ops, [fn |-> "runWarmup", op |-> "clear", rows |-> <<0, 0>>])
    /\ UNCHANGED <<dataLen, txState, pending, bIdx, wi, ii, result, results,
                   shown, err, rowsBefore, txLog, warmBase>>

\* clearTable fails: return err
WarmupClearFail ==
    /\ pc = "w_clear"
    /\ dbOps' = dbOps + 1
    /\ Fatal("clear", "runWarmup")
    /\ ops' = Append(ops, [fn |-> "runWarmup", op |-> "clear", rows |-> <<0, 0>>])
    /\ UNCHANGED <<dataLen, table, txState, pending, bIdx, wi, ii, durations,
                   totalRows, result, results, shown, rowsBefore, txLog,
                   warmBase>>

runWarmup ==
    \/ WarmupBeginOk \/ WarmupBeginFail
    \/ WarmupSendOk \/ WarmupSendFail \/ WarmupRollback
    \/ WarmupCommitOk \/ WarmupCommitFail
    \/ WarmupClearOk \/ WarmupClearFail

\* ---- measureSteadyState -------------------------------------------------
\* the sample loop without an effective clear of the table
SampleClearOk_noTruncate ==
    /\ pc = "s_loop"
    /\ sampleLoopCond(durations)
    /\ dbOps' = dbOps + 1
    /\ ii' = 0
    /\ rowsBefore' = table
    /\ txLog' = <<>>
    /\ pc' = "i_loop"
    /\ ops' = Append(ops, [fn |-> "measureSteadyState", op |-> "clear", rows |-> <<0, 0>>])
    /\ UNCHANGED <<dataLen, table, txState, pending, bIdx, wi, durations,
                   totalRows, result, results, shown, err, warmBase>>

\* loop test holds; clearTable succeeds; insertWithBatch is called with
\* data[:rowsToInsert]
SampleClearOk ==
    /\ pc = "s_loop"
    /\ sampleLoopCond(durations)
    /\ table' = 0
    /\ dbOps' = dbOps + 1
    /\ ii' = 0
    /\ rowsBefore' = table'
    /\ txLog' = <<>>
    /\ pc' = "i_loop"
    /\ ops' = Append(ops, [fn |-> "measureSteadyState", op |-> "clear", rows |-> <<0, 0>>])
    /\ UNCHANGED <<dataLen, txState, pending, bIdx, wi, durations, totalRows,
                   result, results, shown, err, warmBase>>

\* clearTable fails: return Result{}, err
SampleClearFail ==
    /\ pc = "s_loop"
    /\ sampleLoopCond(durations)
    /\ dbOps' = dbOps + 1
    /\ Fatal("clear", "measureSteadyState")
    /\ ops' = Append(ops, [fn |-> "measureSteadyState", op |-> "clear", rows |-> <<0, 0>>])
    /\ UNCHANGED <<dataLen, table, txState, pending, bIdx, wi, ii, durations,
                   totalRows, result, results, shown, rowsBefore, txLog,
                   warmBase>>

\* a stability check that never returns from inside the loop
SampleCheck_noStop ==
    /\ pc = "s_check"
    /\ pc' = "s_loop"
    /\ UNCHANGED <<dataLen, table, txState, pending, bIdx, wi, ii, durations,
                   totalRows, result, results, shown, err, rowsBefore, txLog,
                   warmBase, dbOps,
                   ops>>

\* a stability check that spins without progress when the series is
\* not stable
SampleCheck_spin ==
    /\ pc = "s_check"
    /\ LET mean == calculateMean(durations)
           stdDev == calculateStdDev(durations, mean)
       IN  IF Len(durations) >= minSamples /\ cvLeTarget(stdDev, mean)
           THEN /\ result' = mkResult(batchSize, durations, totalRows)
                /\ pc' = "m_append"
           ELSE /\ result' = result
                /\ pc' = "s_check"
    /\ UNCHANGED <<dataLen, table, txState, pending, bIdx, wi, ii, durations,
                   totalRows, results, shown, err, rowsBefore, txLog,
                   warmBase, dbOps, ops>>

\* a stability check without the minSamples guard
SampleCheck_noMin ==
    /\ pc = "s_check"
    /\ LET mean == calculateMean(durations)
           stdDev == calculateStdDev(durations, mean)
       IN  IF cvLeTarget(stdDev, mean)
           THEN /\ result' = mkResult(batchSize, durations, totalRows)
                /\ pc' = "m_append"
           ELSE /\ result' = result
                /\ pc' = "s_loop"
    /\ UNCHANGED <<dataLen, table, txState, pending, bIdx, wi, ii, durations,
                   totalRows, results, shown, err, rowsBefore, txLog,
                   warmBase, dbOps, ops>>

\* the stability check after a sample was appended
SampleCheck ==
    /\ pc = "s_check"
    /\ LET mean == calculateMean(durations)
           stdDev == calculateStdDev(durations, mean)
       IN  IF Len(durations) >= minSamples /\ cvLeTarget(stdDev, mean)
           THEN /\ result' = mkResult(batchSize, durations, totalRows)
                /\ pc' = "m_append"
           ELSE /\ result' = result
                /\ pc' = "s_loop"
    /\ UNCHANGED <<dataLen, table, txState, pending, bIdx, wi, ii, durations,
                   totalRows, results, shown, err, rowsBefore, txLog,
                   warmBase, dbOps,
                   ops>>

\* the loop ended at maxSamples without stabilizing
SampleMaxReached ==
    /\ pc = "s_loop"
    /\ ~sampleLoopCond(durations)
    /\ result' = mkResult(batchSize, durations, totalRows)
    /\ pc' = "m_append"
    /\ UNCHANGED <<dataLen, table, txState, pending, bIdx, wi, ii, durations,
                   totalRows, results, shown, err, rowsBefore, txLog,
                   warmBase, dbOps,
                   ops>>

measureSteadyState ==
    SampleClearOk \/ SampleClearFail \/ SampleCheck \/ SampleMaxReached

\* ---- insertWithBatch ----------------------------------------------------
\* i < len(data); pool.Begin succeeds
InsertBeginOk ==
    /\ pc = "i_loop"
    /\ ii < rowsToInsert(dataLen)
    /\ txState' = "open"
    /\ pending' = 0
    /\ dbOps' = dbOps + 1
    /\ pc' = "i_send"
    /\ ops' = Append(ops, [fn |-> "insertWithBatch", op |-> "begin", rows |-> <<0, 0>>])
    /\ UNCHANGED <<dataLen, table, bIdx, wi, ii, durations, totalRows,
                   result, results, shown, err, rowsBefore, txLog, warmBase>>

\* pool.Begin fails: return 0, err
InsertBeginFail ==
    /\ pc = "i_loop"
    /\ ii < rowsToInsert(dataLen)
    /\ dbOps' = dbOps + 1
    /\ Fatal("begin", "insertWithBatch")
    /\ ops' = Append(ops, [fn |-> "insertWithBatch", op |-> "begin", rows |-> <<0, 0>>])
    /\ UNCHANGED <<dataLen, table, txState, pending, bIdx, wi, ii, durations,
                   totalRows, result, results, shown, rowsBefore, txLog,
                   warmBase>>

\* the batch of data[i:end] is sent and br.Close() returns nil
InsertSendOk ==
    /\ pc = "i_send"
    /\ pending' = chunkEnd(ii, batchSize, rowsToInsert(dataLen)) - ii
    /\ dbOps' = dbOps + 1
    /\ pc' = "i_commit"
    /\ ops' = Append(ops, [fn |-> "insertWithBatch", op |-> "send", rows |-> <<ii, chunkEnd(ii, batchSize, rowsToInsert(dataLen))>>])
    /\ UNCHANGED <<dataLen, table, txState, bIdx, wi, ii, durations,
                   totalRows, result, results, shown, err, rowsBefore, txLog,
                   warmBase>>

\* br.Close() returns an error after some statements of the chunk ran
InsertSendFail ==
    /\ pc = "i_send"
    /\ \E done \in 0..(chunkEnd(ii, batchSize, rowsToInsert(dataLen)) - ii - 1) :
          pending' = done
    /\ dbOps' = dbOps + 1
    /\ err' = [op |-> "stmt", fn |-> "insertWithBatch"]
    /\ pc' = "i_rollback"
    /\ ops' = Append(ops, [fn |-> "insertWithBatch", op |-> "send", rows |-> <<ii, chunkEnd(ii, batchSize, rowsToInsert(dataLen))>>])
    /\ UNCHANGED <<dataLen, table, txState, bIdx, wi, ii, durations,
                   totalRows, result, results, shown, rowsBefore, txLog,
                   warmBase>>

\* a rollback that leaves the rows of the failed chunk in the table
InsertRollback_keepsRows ==
    /\ pc = "i_rollback"
    /\ table' = table + pending
    /\ pending' = 0
    /\ txState' = "rolledback"
    /\ pc' = "fatal"
    /\ ops' = Append(ops, [fn |-> "insertWithBatch", op |-> "rollback", rows |-> <<0, 0>>])
    /\ UNCHANGED <<dataLen, bIdx, wi, ii, durations, totalRows, result,
                   results, shown, err, rowsBefore, txLog, warmBase, dbOps>>

\* tx.Rollback(ctx); return 0, err
InsertRollback ==
    /\ pc = "i_rollback"
    /\ pending' = 0
    /\ txState' = "rolledback"
    /\ pc' = "fatal"
    /\ ops' = Append(ops, [fn |-> "insertWithBatch", op |-> "rollback", rows |-> <<0, 0>>])
    /\ UNCHANGED <<dataLen, table, bIdx, wi, ii, durations, totalRows,
                   result, results, shown, err, rowsBefore, txLog, warmBase,
                   dbOps>>

\* tx.Commit succeeds; i += batchSize
InsertCommitOk ==
    /\ pc = "i_commit"
    /\ table' = table + pending
    /\ pending' = 0
    /\ txState' = "committed"
    /\ dbOps' = dbOps + 1
    /\ txLog' = Append(txLog,
                  <<ii, chunkEnd(ii, batchSize, rowsToInsert(dataLen))>>)
    /\ ii' = ii + batchSize
    /\ pc' = "i_loop"
    /\ ops' = Append(ops, [fn |-> "insertWithBatch", op |-> "commit", rows |-> <<0, 0>>])
    /\ UNCHANGED <<dataLen, bIdx, wi, durations, totalRows, result, results,
                   shown, err, rowsBefore, warmBase>>

\* a commit failure that is swallowed: the loop goes on to the next chunk
InsertCommitFail_continue ==
    /\ pc = "i_commit"
    /\ txState' = "commitFailed"
    /\ dbOps' = dbOps + 1
    /\ err' = [op |-> "commit", fn |-> "insertWithBatch"]
    /\ ii' = ii + batchSize
    /\ pc' = "i_loop"
    /\ ops' = Append(ops, [fn |-> "insertWithBatch", op |-> "commit", rows |-> <<0, 0>>])
    /\ UNCHANGED <<dataLen, table, pending, bIdx, wi, durations, totalRows,
                   result, results, shown, rowsBefore, txLog, warmBase>>

\* tx.Commit fails: return 0, err, without a Rollback call
InsertCommitFail ==
    /\ pc = "i_commit"
    /\ txState' = "commitFailed"
    /\ dbOps' = dbOps + 1
    /\ Fatal("commit", "insertWithBatch")
    /\ ops' = Append(ops, [fn |-> "insertWithBatch", op |-> "commit", rows |-> <<0, 0>>])
    /\ UNCHANGED <<dataLen, table, pending, bIdx, wi, ii, durations,
                   totalRows, result, results, shown, rowsBefore, txLog,
                   warmBase>>

\* the loop ends, insertWithBatch returns the elapsed time and
\* measureSteadyState appends the sample rowsToInsert / seconds
InsertReturn ==
    /\ pc = "i_loop"
    /\ ~(ii < rowsToInsert(dataLen))
    /\ \E rowsPerSec \in (IF rowsToInsert(dataLen) = 0 THEN {0}
                                                      ELSE Throughputs) :
          durations' = Append(durations, rowsPerSec)
    /\ totalRows' = totalRows + rowsToInsert(dataLen)
    /\ pc' = "s_check"
    /\ UNCHANGED <<dataLen, table, txState, pending, bIdx, wi, ii, result,
                   results, shown, err, rowsBefore, txLog, warmBase, dbOps,
                   ops>>

insertWithBatch ==
    \/ InsertBeginOk \/ InsertBeginFail
    \/ InsertSendOk \/ InsertSendFail \/ InsertRollback
    \/ InsertCommitOk \/ InsertCommitFail
    \/ InsertReturn

\* ---- properties ---------------------------------------------------------
Min(a, b) == IF a < b THEN a ELSE b

StmtErrInInsert == [op |-> "stmt", fn |-> "insertWithBatch"]

\* the first k samples of d satisfy the stability test
StableAt(d, k) ==
    LET p == SubSeq(d, 1, k)
    IN  cvLeTarget(calculateStdDev(p, calculateMean(p)), calculateMean(p))

\* the first k samples of d have a CV above targetCV
AboveAt(d, k) ==
    LET p == SubSeq(d, 1, k)
    IN  calculateMean(p).num # 0 /\ ~StableAt(d, k)

\* C1: whenever the first insert transaction of a sample is about to begin
\* (insertWithBatch at i = 0 with rows to insert), the table holds zero rows.
C1_SampleStartsEmpty ==
    (pc = "i_loop" /\ ii = 0 /\ ii < rowsToInsert(dataLen)) => table = 0

\* a later sample of a later trial starts on the empty table
C1_Witness ==
    /\ pc = "i_loop" /\ ii = 0 /\ rowsToInsert(dataLen) > 0
    /\ bIdx = 2 /\ Len(durations) = 2
    /\ table = 0

\* C2 (as stated): the table is empty whenever a warmup cycle's transaction
\* is about to begin.
C2_WarmupCycleStartsEmpty == pc = "w_begin" => table = 0

\* C2 (amended): when warmup cycle i of a trial is about to begin, the table
\* holds r0 + i * min(B, n) rows, where r0 is the row count at the call of
\* runWarmup: 0 for the first trial, min(sampleSize, n) for a later one.
C2_WarmupCycleRows ==
    pc = "w_begin" =>
        /\ table = warmBase + wi * Min(batchSizes[bIdx], dataLen)
        /\ warmBase = IF bIdx = 1 THEN 0 ELSE Min(sampleSize, dataLen)

\* the second cycle of a later trial starts on a non-empty table
C2_Witness ==
    /\ pc = "w_begin" /\ wi = 1 /\ bIdx = 2
    /\ dataLen = 3 /\ warmBase = 3 /\ table = 6

\* C3 (as stated): after a statement failure in insertWithBatch the table
\* has as many rows as before the call.
C3_RowCountUnchanged ==
    (pc = "fatal" /\ err = StmtErrInInsert) => table = rowsBefore

\* C3 (amended): after a statement failure in the chunk starting at i, the
\* table has the rows it had before the call plus the i rows of the chunks
\* committed before; the failed chunk leaves no row.
C3_RowCountCommittedChunks ==
    (pc = "fatal" /\ err = StmtErrInInsert) =>
        /\ table = rowsBefore + ii
        /\ pending = 0
        /\ ii = 0 => table = rowsBefore

\* a statement of the last of three chunks failed
C3_Witness ==
    /\ pc = "fatal" /\ err = StmtErrInInsert
    /\ batchSizes[bIdx] = 2 /\ ii = 4 /\ rowsBefore = 0 /\ table = 4

\* C4: when a statement or commit failure has been returned, the transaction
\* has been rolled back.
C4_RolledBackBeforeReturn ==
    (pc = "fatal" /\ err.op \in {"stmt", "commit"}) => txState = "rolledback"

\* C5: if the series first passes the stability test at length k in
\* minSamples..maxSamples, the series never grows beyond k and the Result
\* returned has samples = k.
C5_StopsAtFirstStable ==
    \A k \in minSamples..Len(durations) :
        (StableAt(durations, k)
           /\ \A j \in minSamples..(k - 1) : ~StableAt(durations, j))
        => /\ Len(durations) = k
           /\ pc \in {"s_check", "m_append"}
           /\ pc = "m_append" => result.samples = k

\* a trial that is unstable at minSamples and stable one sample later
C5_Witness ==
    /\ pc = "m_append"
    /\ Len(durations) = minSamples + 1
    /\ ~StableAt(durations, minSamples)
    /\ StableAt(durations, minSamples + 1)
    /\ result.samples = minSamples + 1

\* C6: a trial whose CV is above targetCV at every check returns its Result
\* with exactly maxSamples samples, and no series exceeds maxSamples.
C6_MaxReachedAtMaxSamples ==
    /\ Len(durations) <= maxSamples
    /\ (pc = "m_append"
          /\ \A k \in minSamples..Len(durations) : AboveAt(durations, k))
       => /\ Len(durations) = maxSamples
          /\ result.samples = maxSamples

\* a trial that never stabilised
C6_Witness ==
    /\ pc = "m_append"
    /\ \A k \in minSamples..Len(durations) : AboveAt(durations, k)
    /\ result.samples = maxSamples

InMeasure ==
    \/ pc \in {"s_loop", "i_loop", "i_send", "i_commit", "i_rollback",
               "s_check", "m_append"}
    \/ pc = "fatal" /\ err.fn \in {"measureSteadyState", "insertWithBatch"}

\* C7 (as stated): inside measureSteadyState the series length is in
\* 1..maxSamples.
C7_LengthAtLeastOne == InMeasure => Len(durations) \in 1..maxSamples

\* C7 (amended): the series length is in 0..maxSamples; it is at least 1
\* once a sample has been appended, and 0 only while no row has been counted.
C7_LengthInRange ==
    /\ Len(durations) \in 0..maxSamples
    /\ pc \in {"s_check", "m_append"} => Len(durations) >= 1
    /\ (InMeasure /\ Len(durations) = 0) => totalRows = 0
    /\ pc = "m_append" => result.samples \in 1..maxSamples

\* the series is full
C7_Witness ==
    /\ pc = "s_check" /\ Len(durations) = maxSamples /\ totalRows > 0

\* C8: when insertWithBatch has returned without error for n records, it
\* has committed ceil(n/B) transactions, the j-th over records
\* (j-1)*B .. min(j*B, n), and the table has gained n rows.
C8_ChunksCoverInput ==
    pc = "s_check" =>
        LET n == Min(sampleSize, dataLen)
            B == batchSizes[bIdx]
        IN  /\ Len(txLog) = (n + B - 1) \div B
            /\ \A j \in 1..Len(txLog) :
                  /\ txLog[j][1] = (j - 1) * B
                  /\ txLog[j][2] - txLog[j][1] =
                        IF j < Len(txLog) \/ n % B = 0 THEN B ELSE n % B
            /\ table = rowsBefore + n

\* 5 records at batch size 2 went in as 2, 2, 1
C8_Witness ==
    /\ pc = "s_check"
    /\ txLog = << <<0, 2>>, <<2, 4>>, <<4, 5>> >>
    /\ table = 5

\* C9: no Result is returned for a series whose mean is 0.
C9_ZeroMeanIsFatal == pc = "m_append" => result.rowsPerSec.num # 0

\* C10: once a begin, statement or commit of insertWithBatch has failed, no
\* further Begin, SendBatch, Commit or TRUNCATE is issued, no chunk is
\* committed, and the run ends.
C10_FailsImmediately ==
    /\ [](err.fn = "insertWithBatch" => pc \in {"i_rollback", "fatal"})
    /\ [][err.fn = "insertWithBatch" =>
            /\ dbOps' = dbOps
            /\ txLog' = txLog
            /\ table' = table
            /\ pc' = "fatal"]_vars

\* a commit failed while a later chunk was still to be inserted
C10_Witness ==
    /\ pc = "fatal"
    /\ err = [op |-> "commit", fn |-> "insertWithBatch"]
    /\ ii + batchSizes[bIdx] < rowsToInsert(dataLen)
    /\ Len(txLog) = 1

Op(fn, op, from, to) == [fn |-> fn, op |-> op, rows |-> <<from, to>>]

\* C11: when runWarmup has returned without error, it has issued exactly
\* Begin, SendBatch of records 0..min(B, n), Commit, twice, and then one
\* TRUNCATE, and the table is empty.
C11_WarmupTwoCyclesThenClear ==
    (pc = "s_loop" /\ durations = <<>>) =>
        LET m == Min(batchSizes[bIdx], dataLen)
        IN  /\ ops = << Op("runWarmup", "begin", 0, 0),
                        Op("runWarmup", "send", 0, m),
                        Op("runWarmup", "commit", 0, 0),
                        Op("runWarmup", "begin", 0, 0),
                        Op("runWarmup", "send", 0, m),
                        Op("runWarmup", "commit", 0, 0),
                        Op("runWarmup", "clear", 0, 0) >>
            /\ wi = 2
            /\ table = 0

\* the warmup of a later trial, capped by the data, has returned
C11_Witness ==
    /\ pc = "s_loop" /\ durations = <<>>
    /\ bIdx = 3 /\ dataLen = 6
    /\ ops[2].rows = <<0, 6>>
    /\ table = 0

RECURSIVE SumOf(_, _)
SumOf(d, k) == IF k = 0 THEN 0 ELSE d[k] + SumOf(d, k - 1)

RECURSIVE SumSqOf(_, _)
SumSqOf(d, k) == IF k = 0 THEN 0 ELSE d[k] * d[k] + SumSqOf(d, k - 1)

\* C12: a returned Result has samples = n, rowsPerSec = S/n and
\* stdDev^2 = (n*Q - S^2)/n^2 for the length n, sum S and sum of squares Q
\* of the whole series; minSamples samples of 100 give mean 100, stdDev 0.
C12_ResultOverWholeSeries ==
    pc = "m_append" =>
        LET n == Len(durations)
            S == SumOf(durations, n)
            Q == SumSqOf(durations, n)
        IN  /\ result.samples = n
            /\ result.batchSize = batchSizes[bIdx]
            /\ result.rowsPerSec.den > 0
            /\ result.rowsPerSec.num * n = S * result.rowsPerSec.den
            /\ result.stdDev.den > 0
            /\ result.stdDev.num * n * n = (n * Q - S * S) * result.stdDev.den
            /\ (n = minSamples /\ \A i \in 1..n : durations[i] = 100) =>
                  /\ result.rowsPerSec.num = 100 * result.rowsPerSec.den
                  /\ result.stdDev.num = 0

\* a series that stabilised after minSamples + 1 unequal samples
C12_Witness ==
    /\ pc = "m_append"
    /\ Len(durations) = minSamples + 1
    /\ \E i \in 1..Len(durations) : durations[i] # durations[1]
    /\ result.samples = minSamples + 1
    /\ result.stdDev.num > 0

\* C13: after an error nothing is rendered and the run is over, and
\* displayHistogram has been called only with one Result per batch size.
C13_NoResultsOnFailure ==
    /\ err # NoErr =>
          /\ shown = NotShown
          /\ pc \in {"fatal", "w_rollback", "i_rollback"}
    /\ shown # NotShown =>
          /\ err = NoErr
          /\ shown = results
          /\ Len(results) = Len(batchSizes)

\* a warmup failed after an earlier trial had produced its Result
C13_Witness ==
    /\ pc = "fatal" /\ err.fn = "runWarmup"
    /\ Len(results) = 1
    /\ shown = NotShown

\* C15: a check at fewer than minSamples samples returns nothing and goes on
\* sampling, and every returned Result has minSamples..maxSamples samples.
C15_NoResultBeforeMinSamples ==
    /\ [](pc = "m_append" => result.samples \in minSamples..maxSamples)
    /\ [][(pc = "s_check" /\ Len(durations) < minSamples) =>
            (pc' = "s_loop" /\ result' = result /\ results' = results)]_vars

\* minSamples - 1 identical samples were checked and sampling goes on
C15_Witness ==
    /\ pc = "s_loop"
    /\ Len(durations) = minSamples - 1
    /\ \A i \in 1..Len(durations) : durations[i] = 100

WarmupPcs == {"w_begin", "w_send", "w_commit", "w_clear"}
SamplePcs == {"s_loop", "i_loop", "i_send", "i_commit", "s_check", "m_append"}
WarmupOpCount == 3 * warmupCycles + 1

\* C16: without an error, results holds one Result for each batch size
\* before the current one, in configured order; during a warmup no sample of
\* the trial has been taken; during sampling the trial's warmup calls,
\* ending with its clear, come before all other calls; the list rendered at
\* the end is that of the configured batch sizes.
C16_TrialsInOrder ==
    err = NoErr =>
        /\ Len(results) = bIdx - 1
        /\ \A j \in 1..Len(results) : results[j].batchSize = batchSizes[j]
        /\ pc \in WarmupPcs =>
              /\ durations = <<>>
              /\ \A k \in 1..Len(ops) : ops[k].fn = "runWarmup"
        /\ pc \in SamplePcs =>
              /\ Len(ops) >= WarmupOpCount
              /\ \A k \in 1..Len(ops) :
                    (ops[k].fn = "runWarmup") <=> (k <= WarmupOpCount)
              /\ ops[WarmupOpCount].op = "clear"
        /\ pc = "done" =>
              /\ shown = results
              /\ Len(shown) = Len(batchSizes)

\* the run ended with its three Results rendered
C16_Witness ==
    /\ pc = "done"
    /\ Len(shown) = 3
    /\ shown[1].batchSize = 2 /\ shown[2].batchSize = 5
    /\ shown[3].batchSize = 8

\* C18: no transaction is open, or left neither committed nor rolled back,
\* where a transaction is begun, the table is cleared or a function returns.
C18_TxClosedBeforeNext ==
    pc \in {"w_begin", "w_clear", "s_loop", "i_loop", "s_check", "m_append",
            "m_loop", "done", "fatal"}
        => txState \in {"none", "committed", "rolledback"}

\* the calls of one sample at a batch size that covers all m records
SampleCycle(m) ==
    IF m = 0
    THEN << Op("measureSteadyState", "clear", 0, 0) >>
    ELSE << Op("measureSteadyState", "clear", 0, 0),
            Op("insertWithBatch", "begin", 0, 0),
            Op("insertWithBatch", "send", 0, m),
            Op("insertWithBatch", "commit", 0, 0) >>

C20_LastSampleStays ==
    (\/ pc = "m_append"
     \/ pc \in {"m_loop", "done"} /\ bIdx > 1
     \/ pc = "w_begin" /\ wi = 0 /\ bIdx > 1)
        => table = Min(sampleSize, dataLen)

\* the run has ended with the last sample's rows in the table
C20_Witness ==
    /\ pc = "done"
    /\ dataLen >= 5
    /\ table = Min(sampleSize, dataLen)

Next ==
    \/ MainNext \/ MainAppend \/ MainDisplay
    \/ runWarmup
    \/ measureSteadyState
    \/ insertWithBatch

Spec == Init /\ [][Next]_vars

\* the single thread of control always takes its next step: every datastore
\* call returns
FairSpec == Spec /\ WF_vars(Next)

\* ---- the statistics functions on their own ------------------------------
StatInit ==
    /\ pc = "stat"
    /\ durations \in UNION {[1..k -> StatValues] : k \in 1..MaxStatLen}
    /\ dataLen = 0
    /\ table = 0
    /\ txState = "none"
    /\ pending = 0
    /\ bIdx = 1
    /\ wi = 0
    /\ ii = 0
    /\ totalRows = 0
    /\ result = NoResult
    /\ results = <<>>
    /\ shown = NotShown
    /\ err = NoErr
    /\ rowsBefore = 0
    /\ txLog = <<>>
    /\ warmBase = 0
    /\ dbOps = 0
    /\ ops = <<>>

\* mean := calculateMean(durations); stdDev := calculateStdDev(durations, mean)
StatApply ==
    /\ pc = "stat"
    /\ LET mean == calculateMean(durations)
       IN  result' = [rowsPerSec |-> mean,
                      stdDev |-> calculateStdDev(durations, mean)]
    /\ pc' = "stat_done"
    /\ UNCHANGED <<dataLen, table, txState, pending, bIdx, wi, ii, durations,
                   totalRows, results, shown, err, rowsBefore, txLog,
                   warmBase, dbOps, ops>>

StatNext == StatApply

SpecStats == StatInit /\ [][StatNext]_vars

\* C14: for a non-empty series the variance computed by calculateStdDev is
\* a well-defined quotient >= 0, it is 0 exactly when all samples are equal,
\* and so it is 0 for a series of length 1.
C14_VarianceZeroIffIdentical ==
    pc = "stat_done" =>
        LET v == result.stdDev
        IN  /\ v.den > 0
            /\ v.num >= 0
            /\ (v.num = 0) <=>
                  (\A i, j \in 1..Len(durations) : durations[i] = durations[j])
            /\ Len(durations) = 1 => v.num = 0

\* the variance of one sample, of equal samples and of unequal samples
C14_Witness ==
    /\ pc = "stat_done"
    /\ durations = <<100, 112, 100>>
    /\ result.stdDev.num > 0

\* C17: under FairSpec the run reaches done or fatal, every trial that
\* starts its warmup ends with its Result appended or with the fatal error,
\* and no series exceeds maxSamples.
C17_EveryTrialTerminates ==
    /\ <>(pc \in {"done", "fatal"})
    /\ \A b \in 1..Len(batchSizes) :
          (pc = "w_begin" /\ bIdx = b) ~> (pc = "fatal" \/ Len(results) >= b)
    /\ [](Len(durations) <= maxSamples)

\* the run ended after a trial that took maxSamples samples
C17_Witness ==
    /\ pc = "done"
    /\ results[1].samples = maxSamples
    /\ results[3].samples = minSamples
=============================================================================
